---- MODULE Spec2Model ----
(***************************************************************************)
(* Model of pkg/common/starstruct (struct.go): field-name generation,      *)
(* flattening of nested values into a path -> string mapping, assembly of  *)
(* the mapping into ordered rows, and reconstruction of records from a     *)
(* table.  Go strings are TLA+ strings; reflect.Value is a record with a   *)
(* kind field; a Go map[string]string is a function on a set of strings.   *)
(***************************************************************************)
EXTENDS Integers, Sequences, FiniteSets, TLC

VARIABLES op, arg, ret

vars == <<op, arg, ret>>

-----------------------------------------------------------------------------
(* Go strings: bytewise comparison, prefixes, splitting, conversions.      *)

\* The bytes used by the model, in ascending byte order (Go compares strings bytewise).
ByteOrder == " +,-.0123456789<>ABCDEFGHIJKLMNOPQRSTUVWXYZ[]_abcdefghijklmnopqrstuvwxyz{}"

Chr(s, i) == SubSeq(s, i, i)

Ord == [c \in {Chr(ByteOrder, i) : i \in 1..Len(ByteOrder)} |->
          CHOOSE i \in 1..Len(ByteOrder) : Chr(ByteOrder, i) = c]

MinOf(S) == CHOOSE x \in S : \A y \in S : x <= y

\* a < b on Go strings, decided at the first position i where they differ
LessAt(a, b, i) == Ord[Chr(a, i)] < Ord[Chr(b, i)]

FirstDiff(a, b, n) == {i \in 1..n : Chr(a, i) # Chr(b, i) /\ \A j \in 1..(i - 1) : Chr(a, j) = Chr(b, j)}

StrLess(a, b) ==
    IF \E i \in FirstDiff(a, b, IF Len(a) < Len(b) THEN Len(a) ELSE Len(b)) : LessAt(a, b, i)
    THEN TRUE
    ELSE (IF Len(a) < Len(b) THEN SubSeq(b, 1, Len(a)) = a ELSE FALSE)

\* strings.HasPrefix
HasPrefix(s, p) == Len(p) <= Len(s) /\ SubSeq(s, 1, Len(p)) = p

\* strings.TrimPrefix
TrimPrefix(s, p) == IF HasPrefix(s, p) THEN SubSeq(s, Len(p) + 1, Len(s)) ELSE s

\* strings.Index for a one-byte separator; 0 when absent
IndexByte(s, c) ==
    IF \A i \in 1..Len(s) : Chr(s, i) # c THEN 0
    ELSE CHOOSE i \in 1..Len(s) : Chr(s, i) = c /\ \A j \in 1..(i - 1) : Chr(s, j) # c

\* strings.Contains
Contains(s, sub) ==
    \E i \in 1..(Len(s) + 1) : i + Len(sub) - 1 <= Len(s) /\ SubSeq(s, i, i + Len(sub) - 1) = sub

\* strings.SplitN(s, sep, 2) for a one-byte separator
SplitAt(s, i) == IF i = 0 THEN <<s>> ELSE <<SubSeq(s, 1, i - 1), SubSeq(s, i + 1, Len(s))>>

SplitN2(s, sep) == SplitAt(s, IndexByte(s, sep))

\* strings.ReplaceAll(s, " ", "")
RECURSIVE RemoveSpaces(_)
RemoveSpaces(s) ==
    IF Len(s) = 0 THEN ""
    ELSE (IF Chr(s, 1) = " " THEN "" ELSE Chr(s, 1)) \o RemoveSpaces(SubSeq(s, 2, Len(s)))

Digits == "0123456789"

IsDigit(c) == IndexByte(Digits, c) # 0

RECURSIVE DigitsValue(_)
DigitsValue(s) ==
    IF Len(s) = 0 THEN 0
    ELSE 10 * DigitsValue(SubSeq(s, 1, Len(s) - 1)) + (IndexByte(Digits, Chr(s, Len(s))) - 1)

\* strconv.Atoi: an optional sign followed by one or more decimal digits
AtoiBody(body, negative) ==
    IF Len(body) > 0 /\ \A i \in 1..Len(body) : IsDigit(Chr(body, i))
    THEN [ok |-> TRUE, n |-> IF negative THEN 0 - DigitsValue(body) ELSE DigitsValue(body)]
    ELSE [ok |-> FALSE, n |-> 0]

Atoi(s) ==
    IF Len(s) > 0 /\ Chr(s, 1) \in {"+", "-"}
    THEN AtoiBody(SubSeq(s, 2, Len(s)), Chr(s, 1) = "-")
    ELSE AtoiBody(s, FALSE)

\* strconv.Itoa
Itoa(n) == IF n < 0 THEN "-" \o ToString(0 - n) ELSE ToString(n)

RECURSIVE Zeros(_)
Zeros(k) == IF k <= 0 THEN "" ELSE "0" \o Zeros(k - 1)

\* fmt.Sprintf("%0<width>d", j) for j >= 0
FormatIndex(width, j) == Zeros(width - Len(Itoa(j))) \o Itoa(j)

UpperCase == "ABCDEFGHIJKLMNOPQRSTUVWXYZ"
LowerCase == "abcdefghijklmnopqrstuvwxyz"

ToLowerByte(c) ==
    IF IndexByte(UpperCase, c) # 0 THEN Chr(LowerCase, IndexByte(UpperCase, c)) ELSE c

ToUpperByte(c) ==
    IF IndexByte(LowerCase, c) # 0 THEN Chr(UpperCase, IndexByte(LowerCase, c)) ELSE c

\* isLetter of struct.go
isLetter(c) == IndexByte(UpperCase, c) # 0 \/ IndexByte(LowerCase, c) # 0 \/ c = "_"

\* camelKey: the first character lower-cased
camelKey(s) == IF Len(s) = 0 THEN s ELSE ToLowerByte(Chr(s, 1)) \o SubSeq(s, 2, Len(s))

\* joinPrefixKey
joinPrefixKey(prefix, key) ==
    IF prefix = "" /\ key = "" THEN ""
    ELSE IF prefix = "" THEN key
    ELSE IF key = "" THEN prefix
    ELSE prefix \o "." \o key

\* getFirstTag: strings.Split(tag, ",")[0]
getFirstTag(tag) == SplitN2(tag, ",")[1]

-----------------------------------------------------------------------------
(* reflect.Value: a record with a kind; a pointer or interface value is    *)
(* nil or holds an element; a struct holds its fields in declared order;   *)
(* a map holds its entries in the order the runtime enumerates them.       *)

Invalid == [kind |-> "invalid"]

Str(s) == [kind |-> "string", v |-> s]

IntV(n) == [kind |-> "int", v |-> n]

BoolV(b) == [kind |-> "bool", v |-> b]

NilPtr(ekind) == [kind |-> "ptr", nil |-> TRUE, ekind |-> ekind]

PtrTo(v) == [kind |-> "ptr", nil |-> FALSE, ekind |-> v.kind, elem |-> v]

NilIface == [kind |-> "interface", nil |-> TRUE]

Iface(v) == [kind |-> "interface", nil |-> FALSE, elem |-> v]

\* zero is reflect.Zero of the slice's element type
SliceV(elems, zero) == [kind |-> "slice", elems |-> elems, zero |-> zero]

ArrayV(elems, zero) == [kind |-> "array", elems |-> elems, zero |-> zero]

MapV(entries) == [kind |-> "map", entries |-> entries]

\* a map entry: k is the string fmt.Sprint gives for the key (two keys of a
\* map[interface{}]T, such as 1 and "1", can share one), v the value
Entry(k, v) == [k |-> k, v |-> v]

StructV(type, fields) == [kind |-> "struct", type |-> type, fields |-> fields]

\* a time.Time value: a struct of unexported fields that prints as str
TimeV(str) ==
    [kind |-> "struct", type |-> "time.Time", str |-> str,
     fields |-> <<[Name |-> "wall", json |-> "", url |-> "", xml |-> "", anon |-> FALSE,
                   val |-> [kind |-> "int", v |-> 0]]>>]

\* reflect.StructField with its value: declared name, the three tags, Anonymous
Field(name, json, val) ==
    [Name |-> name, json |-> json, url |-> "", xml |-> "", anon |-> FALSE, val |-> val]

\* reflect.Value.IsNil on a pointer or interface
IsNilRef(v) == v.kind \in {"ptr", "interface"} /\ v.nil

\* reflect.Value.Elem
Elem(v) == IF v.nil THEN Invalid ELSE v.elem

\* StructField.IsExported
IsExported(f) == Len(f.Name) > 0 /\ IndexByte(UpperCase, Chr(f.Name, 1)) # 0

\* field.Type.String() == "time.Time"
IsTimeType(f) == f.val.kind = "struct" /\ f.val.type = "time.Time"

\* DerefPointers: unwraps pointers and interfaces; a nil one unwraps to the
\* invalid Value (the switch on the kind of a nil pointer matches no case).
RECURSIVE DerefPointers(_)
DerefPointers(val) ==
    IF val.kind \notin {"ptr", "interface"} THEN val
    ELSE LET v1 == IF val.kind = "ptr" THEN Elem(val) ELSE val
             v2 == IF v1.kind = "interface" THEN Elem(v1) ELSE v1
         IN  DerefPointers(v2)

\* shouldInline
shouldInline(f) == Contains(f.json, ",inline")

\* getMapKey
MapKeyOf(jsonTag, urlTag, xmlTag, name) ==
    IF jsonTag # "" /\ jsonTag # "-" THEN jsonTag
    ELSE IF urlTag # "" /\ urlTag # "-" THEN urlTag
    ELSE IF xmlTag # "" /\ xmlTag # "-" THEN xmlTag
    ELSE camelKey(name)

getMapKey(f) == MapKeyOf(getFirstTag(f.json), getFirstTag(f.url), getFirstTag(f.xml), f.Name)

\* the comparator sortGroupKeys hands to sort.Slice for the group of a header:
\* partsA, partsB are the suffixes split at the first dot, nA, nB their first
\* segments as strconv.Atoi reads them
LessByParts(a, b, partsA, partsB, nA, nB) ==
    IF nA.ok /\ nB.ok
    THEN IF nA.n # nB.n THEN nA.n < nB.n
         ELSE IF Len(partsA) > 1 /\ Len(partsB) > 1 THEN StrLess(partsA[2], partsB[2])
         ELSE Len(partsA) < Len(partsB)
    ELSE StrLess(a, b)

LessBySuffix(a, b, partsA, partsB) ==
    LessByParts(a, b, partsA, partsB, Atoi(partsA[1]), Atoi(partsB[1]))

GroupLess(header, a, b) ==
    IF a = header /\ b # header THEN TRUE
    ELSE IF b = header /\ a # header THEN FALSE
    ELSE LessBySuffix(a, b, SplitN2(TrimPrefix(a, header \o "."), "."),
                            SplitN2(TrimPrefix(b, header \o "."), "."))

\* the less functions given to sort.Slice: by string, by the string form of a
\* map key, and by the group comparator of a header
ByString == [kind |-> "string"]

ByKey == [kind |-> "key"]

ByGroup(header) == [kind |-> "group", header |-> header]

LessBy(cmp, a, b) ==
    CASE cmp.kind = "string" -> StrLess(a, b)
      [] cmp.kind = "key" -> StrLess(a.k, b.k)
      [] cmp.kind = "group" -> GroupLess(cmp.header, a, b)

\* sort.Slice on at most 12 elements is an insertion sort (a longer slice is
\* sorted by the same comparator; for a strict total order the result is the same)
RECURSIVE SinkLeft(_, _, _)
SinkLeft(data, j, cmp) ==
    IF j > 1 /\ LessBy(cmp, data[j], data[j - 1])
    THEN SinkLeft([data EXCEPT ![j] = data[j - 1], ![j - 1] = data[j]], j - 1, cmp)
    ELSE data

RECURSIVE InsertionSortFrom(_, _, _)
InsertionSortFrom(data, i, cmp) ==
    IF i > Len(data) THEN data
    ELSE InsertionSortFrom(SinkLeft(data, i, cmp), i + 1, cmp)

SortSlice(data, cmp) == InsertionSortFrom(data, 2, cmp)

RECURSIVE JoinWith(_, _)
JoinWith(parts, sep) ==
    IF Len(parts) = 0 THEN ""
    ELSE IF Len(parts) = 1 THEN parts[1]
    ELSE parts[1] \o sep \o JoinWith(Tail(parts), sep)

\* fmt.Sprint of the value held by v (no input of the model prints a map)
RECURSIVE Sprint(_)
Sprint(v) ==
    CASE v.kind = "string" -> v.v
      [] v.kind = "int" -> Itoa(v.v)
      [] v.kind = "bool" -> IF v.v THEN "true" ELSE "false"
      [] v.kind = "invalid" -> "<nil>"
      [] v.kind \in {"ptr", "interface"} /\ v.nil -> "<nil>"
      [] v.kind = "interface" /\ ~v.nil -> Sprint(v.elem)
      [] v.kind = "ptr" /\ ~v.nil ->
            IF v.elem.kind \in {"struct", "slice", "array"}
            THEN "&" \o Sprint(v.elem) ELSE "0xc000012345"
      [] v.kind \in {"slice", "array"} ->
            "[" \o JoinWith([i \in 1..Len(v.elems) |-> Sprint(v.elems[i])], " ") \o "]"
      [] v.kind = "struct" ->
            IF v.type = "time.Time" THEN v.str
            ELSE "{" \o JoinWith([i \in 1..Len(v.fields) |-> Sprint(v.fields[i].val)], " ") \o "}"

-----------------------------------------------------------------------------
(* GenerateFieldNames and generateMapFieldNames.  A result is a status     *)
(* ("ok", "err") and the list of paths (nil, the empty list, on an error). *)

GenOk(fields) == [status |-> "ok", fields |-> fields]

GenErr == [status |-> "err", fields |-> <<>>]

InSeq(x, seq) == \E i \in 1..Len(seq) : seq[i] = x

\* MergeFields(base, candidate): base kept in order, then every path of the
\* candidate that is not yet in the list, in candidate order
RECURSIVE MergeFields(_, _)
MergeFields(base, candidate) ==
    IF Len(candidate) = 0 THEN base
    ELSE MergeFields(IF InSeq(candidate[1], base) THEN base ELSE Append(base, candidate[1]),
                     Tail(candidate))

\* the options GenerateFieldNames reads from its opts
NoOpts == [ExcludeNil |-> FALSE]

RECURSIVE GenerateFieldNames(_, _, _)
RECURSIVE generateMapFieldNames(_, _)
RECURSIVE GenMapKeys(_, _, _, _)
RECURSIVE GenStructFields(_, _, _, _, _)
RECURSIVE GenMergeElems(_, _, _, _, _)

\* an error of a nested call ends the call; otherwise its paths are appended
\* and the loop goes on with the next key
GenMapNext(prefix, entries, i, fields, sub) ==
    IF sub.status # "ok" THEN GenErr
    ELSE GenMapKeys(prefix, entries, i + 1, fields \o sub.fields)

\* the paths of one map entry: only a value of kind map or struct is descended
GenMapEntry(fieldKey, value) ==
    IF value.kind \in {"map", "struct"} THEN GenerateFieldNames(fieldKey, value, NoOpts)
    ELSE GenOk(<<fieldKey>>)

\* the loop over the sorted keys of generateMapFieldNames
GenMapKeys(prefix, entries, i, fields) ==
    IF i > Len(entries) THEN GenOk(fields)
    ELSE GenMapNext(prefix, entries, i, fields,
                    GenMapEntry(joinPrefixKey(prefix, entries[i].k), entries[i].v))

GenMapOf(prefix, val) ==
    IF val.kind # "map" THEN GenErr
    ELSE GenMapKeys(prefix, SortSlice(val.entries, ByKey), 1, <<>>)

generateMapFieldNames(prefix, val) == GenMapOf(prefix, DerefPointers(val))

\* the paths of one struct field that is neither a time.Time nor skipped
GenField(prefix, field, fieldVal, fieldKey, opts) ==
    IF shouldInline(field) THEN GenerateFieldNames(prefix, fieldVal, opts)
    ELSE IF fieldVal.kind = "struct" \/ (fieldVal.kind = "ptr" /\ fieldVal.ekind = "struct")
    THEN GenerateFieldNames(fieldKey, fieldVal, opts)
    ELSE IF fieldVal.kind = "map" \/ (fieldVal.kind = "ptr" /\ fieldVal.ekind = "map")
    THEN generateMapFieldNames(fieldKey, fieldVal)
    ELSE GenOk(<<fieldKey>>)

\* one struct field: a time.Time field adds its json tag, a field tagged "-"
\* and (under ExcludeNil) a nil pointer or interface add nothing
GenFieldStep(prefix, field, jsonTag, opts) ==
    IF IsTimeType(field) /\ ~field.anon THEN GenOk(<<jsonTag>>)
    ELSE IF jsonTag = "-" THEN GenOk(<<>>)
    ELSE IF opts.ExcludeNil /\ IsNilRef(field.val) THEN GenOk(<<>>)
    ELSE GenField(prefix, field, field.val, joinPrefixKey(prefix, jsonTag), opts)

GenStructNext(prefix, val, i, fields, opts, sub) ==
    IF sub.status # "ok" THEN GenErr
    ELSE GenStructFields(prefix, val, i + 1, fields \o sub.fields, opts)

\* the loop over the fields of a struct in GenerateFieldNames
GenStructFields(prefix, val, i, fields, opts) ==
    IF i > Len(val.fields) THEN GenOk(fields)
    ELSE GenStructNext(prefix, val, i, fields, opts,
                       GenFieldStep(prefix, val.fields[i], getFirstTag(val.fields[i].json), opts))

GenMergeNext(prefix, elems, i, merged, opts, sub) ==
    IF sub.status # "ok" THEN GenErr
    ELSE GenMergeElems(prefix, elems, i + 1, MergeFields(merged, sub.fields), opts)

\* the second loop of the slice case: every present element is merged in
GenMergeElems(prefix, elems, i, merged, opts) ==
    IF i > Len(elems) THEN GenOk(merged)
    ELSE IF IsNilRef(elems[i]) THEN GenMergeElems(prefix, elems, i + 1, merged, opts)
    ELSE GenMergeNext(prefix, elems, i, merged, opts,
                      GenerateFieldNames(prefix, DerefPointers(elems[i]), opts))

\* the positions of the elements that are no nil pointer or interface
Present(elems) == {i \in 1..Len(elems) : ~IsNilRef(elems[i])}

\* after the merge: an empty list falls back to the zero value of the element type
GenSliceEnd(prefix, val, opts, merged) ==
    IF merged.status # "ok" THEN GenErr
    ELSE IF Len(merged.fields) = 0 THEN GenerateFieldNames(prefix, val.zero, opts)
    ELSE merged

\* base is the list of the first present element (nil when there is none)
GenSliceFrom(prefix, val, opts, base) ==
    IF base.status # "ok" THEN GenErr
    ELSE GenSliceEnd(prefix, val, opts, GenMergeElems(prefix, val.elems, 1, base.fields, opts))

\* the slice and array case of GenerateFieldNames
GenSlice(prefix, val, opts) ==
    IF Len(val.elems) = 0 THEN GenErr
    ELSE IF Present(val.elems) = {} THEN GenSliceFrom(prefix, val, opts, GenOk(<<>>))
    ELSE GenSliceFrom(prefix, val, opts,
                      GenerateFieldNames(prefix, DerefPointers(val.elems[MinOf(Present(val.elems))]), opts))

\* the switch of GenerateFieldNames on the kind of the dereferenced value
GenByKind(prefix, val, opts) ==
    CASE val.kind = "map" -> generateMapFieldNames(prefix, val)
      [] val.kind \in {"slice", "array"} -> GenSlice(prefix, val, opts)
      [] val.kind = "struct" -> GenStructFields(prefix, val, 1, <<>>, opts)
      [] val.kind = "invalid" -> GenOk(<<prefix>>)
      [] OTHER -> GenErr

GenerateFieldNames(prefix, val, opts) == GenByKind(prefix, DerefPointers(val), opts)

-----------------------------------------------------------------------------
(* FlattenNestedStructs, flattenSlice and flattenMap write into the        *)
(* caller's map as they go.  A result is a status ("ok", "err", or "panic" *)
(* for a run-time panic of reflect) and the caller's map as the call left  *)
(* it.                                                                     *)

EmptyMap == [k \in {} |-> ""]

\* (*fieldMap)[k] = v
Put(m, k, v) == [x \in (DOMAIN m) \cup {k} |-> IF x = k THEN v ELSE m[x]]

FlatOk(m) == [status |-> "ok", m |-> m]

FlatErr(m) == [status |-> "err", m |-> m]

FlatPanic(m) == [status |-> "panic", m |-> m]

RECURSIVE FlattenNestedStructs(_, _, _)
RECURSIVE FlattenFields(_, _, _, _)
RECURSIVE FlattenElems(_, _, _, _, _, _)
RECURSIVE FlattenEntries(_, _, _, _)

\* a width without the minimum of two digits: what IndexWidth must differ
\* from for the index segments of short slices to be padded
C7_UnpaddedWidth(n) == Len(Itoa(n - 1))

\* the width of the index segments of a slice of n elements
IndexWidth(n) == IF Len(Itoa(n - 1)) < 2 THEN 2 ELSE Len(Itoa(n - 1))

\* what flattenSlice does with one element under its key
FlattenElem(elem, elemKey, m) ==
    IF elem.kind = "struct" THEN FlattenNestedStructs(elem, elemKey, m)
    ELSE FlatOk(Put(m, elemKey, Sprint(elem)))

FlattenElemsRest(elems, keyPrefix, width, lo, hi, left) ==
    IF left.status # "ok" THEN left
    ELSE FlattenElems(elems, keyPrefix, width, lo, hi, left.m)

\* the loop of flattenSlice over the elements lo..hi (Go indices lo-1..hi-1),
\* left to right, stopping at the first error; the range is halved to keep
\* the evaluation shallow
FlattenElems(elems, keyPrefix, width, lo, hi, m) ==
    IF lo > hi THEN FlatOk(m)
    ELSE IF lo = hi
    THEN FlattenElem(elems[lo], joinPrefixKey(keyPrefix, FormatIndex(width, lo - 1)), m)
    ELSE FlattenElemsRest(elems, keyPrefix, width, ((lo + hi) \div 2) + 1, hi,
                          FlattenElems(elems, keyPrefix, width, lo, (lo + hi) \div 2, m))

flattenSlice(slice, keyPrefix, m) ==
    FlattenElems(slice.elems, keyPrefix, IndexWidth(Len(slice.elems)), 1, Len(slice.elems), m)

\* what flattenMap does with one dereferenced value under its key;
\* Interface() of the invalid Value (a nil pointer or interface) panics
FlattenEntry(value, newKey, m) ==
    IF value.kind \in {"map", "struct", "slice", "array"}
    THEN FlattenNestedStructs(value, newKey, m)
    ELSE IF value.kind = "invalid" THEN FlatPanic(m)
    ELSE FlatOk(Put(m, newKey, Sprint(value)))

FlattenEntriesNext(entries, prefix, i, r) ==
    IF r.status # "ok" THEN r ELSE FlattenEntries(entries, prefix, i + 1, r.m)

\* the loop over the sorted keys of flattenMap
FlattenEntries(entries, prefix, i, m) ==
    IF i > Len(entries) THEN FlatOk(m)
    ELSE FlattenEntriesNext(entries, prefix, i,
             FlattenEntry(DerefPointers(entries[i].v), joinPrefixKey(prefix, entries[i].k), m))

flattenMap(mv, prefix, m) == FlattenEntries(SortSlice(mv.entries, ByKey), prefix, 1, m)

\* the prefix under which a struct or map field is flattened
InlineOr(field, prefix, keyPrefix) == IF shouldInline(field) THEN prefix ELSE keyPrefix

\* the switch of FlattenNestedStructs on the kind of one exported field
FlattenField(field, fieldVal, prefix, keyPrefix, m) ==
    CASE fieldVal.kind = "slice" ->
            IF Len(fieldVal.elems) = 0 THEN FlatOk(Put(m, keyPrefix, ""))
            ELSE flattenSlice(fieldVal, keyPrefix, m)
      [] fieldVal.kind = "struct" ->
            IF IsTimeType(field) /\ ~field.anon THEN FlatOk(Put(m, keyPrefix, Sprint(fieldVal)))
            ELSE FlattenNestedStructs(fieldVal, InlineOr(field, prefix, keyPrefix), m)
      [] fieldVal.kind = "interface" ->
            IF ~fieldVal.nil /\ fieldVal.elem.kind = "struct"
            THEN FlattenNestedStructs(fieldVal.elem, prefix, m)
            ELSE FlatOk(m)
      [] fieldVal.kind = "map" ->
            IF Len(fieldVal.entries) = 0 THEN FlatOk(Put(m, keyPrefix, ""))
            ELSE flattenMap(fieldVal, InlineOr(field, prefix, keyPrefix), m)
      [] fieldVal.kind = "ptr" ->
            IF fieldVal.nil THEN FlatOk(Put(m, keyPrefix, "<nil>"))
            ELSE IF fieldVal.elem.kind = "struct"
            THEN FlattenNestedStructs(fieldVal.elem, InlineOr(field, prefix, keyPrefix), m)
            ELSE IF fieldVal.elem.kind \in {"map", "slice", "array"}
            THEN FlattenNestedStructs(fieldVal.elem, keyPrefix, m)
            ELSE FlatOk(Put(m, keyPrefix, Sprint(fieldVal.elem)))
      [] OTHER -> FlatOk(Put(m, keyPrefix, Sprint(fieldVal)))

FlattenFieldsNext(val, prefix, i, r) ==
    IF r.status # "ok" THEN r ELSE FlattenFields(val, prefix, i + 1, r.m)

\* the loop over the fields of a struct in FlattenNestedStructs
FlattenFields(val, prefix, i, m) ==
    IF i > Len(val.fields) THEN FlatOk(m)
    ELSE IF ~IsExported(val.fields[i]) THEN FlattenFields(val, prefix, i + 1, m)
    ELSE FlattenFieldsNext(val, prefix, i,
             FlattenField(val.fields[i], val.fields[i].val, prefix,
                          joinPrefixKey(prefix, getMapKey(val.fields[i])), m))

\* the dispatch of FlattenNestedStructs on the dereferenced value; Type() of
\* the invalid Value (item nil or a nil pointer) panics
FlattenByKind(val, prefix, m) ==
    CASE val.kind = "invalid" -> FlatPanic(m)
      [] val.kind = "struct" -> FlattenFields(val, prefix, 1, m)
      [] val.kind = "map" -> flattenMap(val, prefix, m)
      [] val.kind = "slice" -> flattenSlice(val, prefix, m)
      [] OTHER -> FlatErr(m)

FlattenNestedStructs(item, prefix, m) == FlattenByKind(DerefPointers(item), prefix, m)

-----------------------------------------------------------------------------
(* mapToSliceAndUpdateFields.  Ranging over a Go map enumerates its keys   *)
(* in an order the runtime chooses; enum names that order.                 *)
(* One call ranges over the map several times; the model takes the same    *)
(* order for all of them, which is one of the orders the runtime can give. *)

RECURSIVE SortedKeys(_)
SortedKeys(keys) ==
    IF keys = {} THEN <<>>
    ELSE LET least == CHOOSE x \in keys : \A y \in keys : x = y \/ StrLess(x, y)
         IN  <<least>> \o SortedKeys(keys \ {least})

Reverse(seq) == [i \in 1..Len(seq) |-> seq[Len(seq) + 1 - i]]

\* for key := range *fieldMap: the keys in the order enum stands for
RangeKeys(fm, enum) ==
    CASE enum.kind = "ascending" -> SortedKeys(DOMAIN fm)
      [] enum.kind = "descending" -> Reverse(SortedKeys(DOMAIN fm))
      [] enum.kind = "explicit" -> enum.order

\* key == header || strings.HasPrefix(key, header+".")
MatchesHeader(key, header) == key = header \/ HasPrefix(key, header \o ".")

\* the group of one header, sorted by sortGroupKeys
GroupOf(keys, header) ==
    SortSlice(SelectSeq(keys, LAMBDA key : MatchesHeader(key, header)), ByGroup(header))

RECURSIVE GroupsFrom(_, _, _)
GroupsFrom(keys, headers, i) ==
    IF i > Len(headers) THEN <<>>
    ELSE GroupOf(keys, headers[i]) \o GroupsFrom(keys, headers, i + 1)

\* an assembler that leaves out the keys matched by no header
C22_NoLeftovers(keys, headers) == <<>>

\* the keys matched by no header, in lexicographic order
Leftovers(keys, headers) ==
    SortSlice(SelectSeq(keys, LAMBDA key : \A j \in 1..Len(headers) : ~MatchesHeader(key, headers[j])),
              ByString)

RowsOf(fm, newFields) ==
    [rows    |-> [i \in 1..Len(newFields) |-> <<newFields[i], fm[newFields[i]]>>],
     headers |-> newFields]

AssembleKeys(fm, headers, keys) ==
    RowsOf(fm, GroupsFrom(keys, headers, 1) \o Leftovers(keys, headers))

\* returns the rows and the header list it stores through the headers pointer
mapToSliceAndUpdateFields(fm, headers, enum) == AssembleKeys(fm, headers, RangeKeys(fm, enum))

-----------------------------------------------------------------------------
(* FlattenStructFields.  cfg is the pkgConfig the options build: Generate, *)
(* ExcludeNil and Headers, which is nil or points to the caller's list.    *)

NilHeaders == [nil |-> TRUE]

WithHeaders(list) == [nil |-> FALSE, list |-> list]

Config(generate, excludeNil, headers) ==
    [Generate |-> generate, ExcludeNil |-> excludeNil, Headers |-> headers]

\* a result: status, the rows (nil unless "ok"), and the list behind the
\* caller's headers pointer as the call left it
PipeResult(status, rows, cfg, list) ==
    [status |-> status, rows |-> rows,
     headers |-> IF cfg.Headers.nil THEN NilHeaders ELSE WithHeaders(list)]

\* the headers added with an empty value: when fewer keys were kept than
\* there are headers, every header that is no kept key
AddedHeaders(kept, list) ==
    IF Cardinality(kept) < Len(list) THEN {list[i] : i \in 1..Len(list)} \ kept ELSE {}

PrunedMap(fieldMap, kept, added) ==
    [key \in kept \cup added |-> IF key \in kept THEN fieldMap[key] ELSE ""]

PruneKept(fieldMap, list, kept) == PrunedMap(fieldMap, kept, AddedHeaders(kept, list))

\* the map kept when Generate is off: the keys equal to or under a header,
\* and the headers added
PruneToHeaders(fieldMap, list) ==
    PruneKept(fieldMap, list,
              {key \in DOMAIN fieldMap : \E i \in 1..Len(list) : MatchesHeader(key, list[i])})

\* the rows, and the list stored through cfg.Headers: the caller's pointer,
\* unless the headers were generated into a fresh slice
PipeRows(cfg, callerList, mustGen, out) ==
    PipeResult("ok", out.rows, cfg, IF mustGen THEN callerList ELSE out.headers)

PipeAssemble(cfg, callerList, mustGen, list, flatMap, enum) ==
    IF cfg.Generate
    THEN PipeRows(cfg, callerList, mustGen, mapToSliceAndUpdateFields(flatMap, list, enum))
    ELSE PipeRows(cfg, callerList, mustGen,
                  mapToSliceAndUpdateFields(PruneToHeaders(flatMap, list), list, enum))

\* after the headers are settled: flatten, prune unless Generate, assemble;
\* with Generate off and no Headers option the nil pointer is dereferenced
PipeFlatten(cfg, callerList, mustGen, list, flat, enum) ==
    IF flat.status # "ok" THEN PipeResult(flat.status, <<>>, cfg, callerList)
    ELSE IF ~cfg.Generate /\ cfg.Headers.nil THEN PipeResult("panic", <<>>, cfg, callerList)
    ELSE PipeAssemble(cfg, callerList, mustGen, list, flat.m, enum)

PipeGenerated(item, cfg, callerList, generated, enum) ==
    IF generated.status # "ok" THEN PipeResult("err", <<>>, cfg, callerList)
    ELSE PipeFlatten(cfg, callerList, TRUE, generated.fields,
                     FlattenNestedStructs(item, "", EmptyMap), enum)

\* GenerateFieldNames is called without the options of the call
PipeHeaders(item, val, cfg, callerList, enum) ==
    IF val.kind # "struct" THEN PipeResult("err", <<>>, cfg, callerList)
    ELSE IF cfg.Generate /\ Len(callerList) = 0
    THEN PipeGenerated(item, cfg, callerList, GenerateFieldNames("", val, NoOpts), enum)
    ELSE PipeFlatten(cfg, callerList, FALSE, callerList,
                     FlattenNestedStructs(item, "", EmptyMap), enum)

FlattenStructFields(item, cfg, enum) ==
    PipeHeaders(item, DerefPointers(item), cfg,
                IF cfg.Headers.nil THEN <<>> ELSE cfg.Headers.list, enum)

-----------------------------------------------------------------------------
(* ToMap, sliceToInterface and mapFromMap.  A result is a status and the   *)
(* map[string]interface{} returned (nil, the empty map, on an error).  A   *)
(* value of the returned map is a nested map ("mapping"), a []interface{}  *)
(* ("list") or the field's own value.  A slice or map of no elements       *)
(* stands for the nil one, the zero value of its type.                     *)

\* reflect.Value.IsZero
RECURSIVE IsZero(_)
IsZero(v) ==
    CASE v.kind = "string" -> v.v = ""
      [] v.kind = "int" -> v.v = 0
      [] v.kind = "bool" -> ~v.v
      [] v.kind \in {"ptr", "interface"} -> v.nil
      [] v.kind \in {"slice"} -> Len(v.elems) = 0
      [] v.kind = "map" -> Len(v.entries) = 0
      [] v.kind = "array" -> \A i \in 1..Len(v.elems) : IsZero(v.elems[i])
      [] v.kind = "struct" -> \A i \in 1..Len(v.fields) : IsZero(v.fields[i].val)

Mapping(m) == [kind |-> "mapping", m |-> m]

ListOf(elems) == [kind |-> "list", elems |-> elems]

ToMapOk(out) == [status |-> "ok", out |-> out]

ToMapErr == [status |-> "err", out |-> EmptyMap]

\* out[k] = v on a map[string]interface{}
PutValue(out, k, v) == [x \in (DOMAIN out) \cup {k} |-> IF x = k THEN v ELSE out[x]]

\* Interface() of a value: what an interface holds, itself otherwise
Interface(v) == IF v.kind = "interface" /\ ~v.nil THEN v.elem ELSE v

\* mapFromMap: every entry under the string form of its key; an entry that
\* comes later in the enumeration replaces one of the same string form
RECURSIVE mapFromMap(_, _, _)
mapFromMap(entries, i, out) ==
    IF i > Len(entries) THEN out
    ELSE mapFromMap(entries, i + 1, PutValue(out, entries[i].k, Interface(entries[i].v)))

\* the key ToMap stores a field under
ToMapKey(f) == IF getMapKey(f) = "" THEN camelKey(f.Name) ELSE getMapKey(f)

RECURSIVE ToMap(_, _)
RECURSIVE ToMapFields(_, _, _, _)
RECURSIVE sliceToInterface(_, _, _, _)

\* one element of sliceToInterface
ToMapElem(elem, includeZeroValues, nested) ==
    IF elem.kind = "struct" THEN Mapping(nested.out) ELSE Interface(elem)

SliceNext(elems, includeZeroValues, i, result, nested) ==
    IF nested.status # "ok" THEN [status |-> "err", list |-> <<>>]
    ELSE sliceToInterface(elems, includeZeroValues, i + 1,
                          result \o <<ToMapElem(elems[i], includeZeroValues, nested)>>)

sliceToInterface(elems, includeZeroValues, i, result) ==
    IF i > Len(elems) THEN [status |-> "ok", list |-> result]
    ELSE SliceNext(elems, includeZeroValues, i, result,
                   IF elems[i].kind = "struct" THEN ToMap(elems[i], includeZeroValues)
                   ELSE ToMapOk(EmptyMap))

\* the value stored for a field whose conversion gave conv
ToMapStore(fields, i, includeZeroValues, out, key, conv) ==
    IF conv.status # "ok" THEN ToMapErr
    ELSE ToMapFields(fields, i + 1, includeZeroValues, PutValue(out, key, conv.value))

\* the switch on the kind of the field
ToMapConvertList(r) == [status |-> r.status, value |-> ListOf(r.list)]

ToMapConvertStruct(r) == [status |-> r.status, value |-> Mapping(r.out)]

ToMapConvert(val, includeZeroValues) ==
    CASE val.kind = "struct" -> ToMapConvertStruct(ToMap(val, includeZeroValues))
      [] val.kind \in {"slice", "array"} ->
            ToMapConvertList(sliceToInterface(val.elems, includeZeroValues, 1, <<>>))
      [] OTHER -> [status |-> "ok", value |-> Interface(val)]

\* the loop over the fields: unexported and (unless asked for) zero fields
\* are skipped
ToMapFields(fields, i, includeZeroValues, out) ==
    IF i > Len(fields) THEN ToMapOk(out)
    ELSE IF ~IsExported(fields[i]) THEN ToMapFields(fields, i + 1, includeZeroValues, out)
    ELSE IF ~includeZeroValues /\ IsZero(fields[i].val)
    THEN ToMapFields(fields, i + 1, includeZeroValues, out)
    ELSE ToMapStore(fields, i, includeZeroValues, out, ToMapKey(fields[i]),
                    ToMapConvert(fields[i].val, includeZeroValues))

\* the loop that follows the non-nil pointers of item
RECURSIVE FollowPointers(_)
FollowPointers(v) == IF v.kind = "ptr" /\ ~v.nil THEN FollowPointers(v.elem) ELSE v

ToMapOf(v, includeZeroValues) ==
    IF v.kind = "map" THEN ToMapOk(mapFromMap(v.entries, 1, EmptyMap))
    ELSE IF v.kind # "struct" THEN ToMapErr
    ELSE ToMapFields(v.fields, 1, includeZeroValues, EmptyMap)

ToMap(item, includeZeroValues) == ToMapOf(FollowPointers(item), includeZeroValues)

-----------------------------------------------------------------------------
(* TableToStructs.  data is a list of rows, each a list of cells.          *)

\* cases.Title(language.English) on one word: first letter upper case, the
\* other letters lower case
RECURSIVE LowerAll(_)
LowerAll(s) == IF Len(s) = 0 THEN "" ELSE ToLowerByte(Chr(s, 1)) \o LowerAll(SubSeq(s, 2, Len(s)))

Title(s) == IF Len(s) = 0 THEN "" ELSE ToUpperByte(Chr(s, 1)) \o LowerAll(SubSeq(s, 2, Len(s)))

\* ensureValidIdentifier
ensureValidIdentifier(name) ==
    IF name = "" \/ ~isLetter(Chr(name, 1)) THEN "Field" \o name ELSE name

\* the field name TableToStructs derives from a header
SafeHeader(header) == ensureValidIdentifier(Title(RemoveSpaces(header)))

\* reflect.StructOf panics on a field name that is no exported Go identifier
\* and on a name used twice
ValidFieldName(name) ==
    /\ Len(name) > 0
    /\ IndexByte(UpperCase, Chr(name, 1)) # 0
    /\ \A i \in 1..Len(name) : isLetter(Chr(name, i)) \/ IsDigit(Chr(name, i))

StructOfPanics(names) ==
    \/ \E i \in 1..Len(names) : ~ValidFieldName(names[i])
    \/ \E i, j \in 1..Len(names) : i < j /\ names[i] = names[j]

\* the instance built for one data row
RowStruct(headers, row) ==
    StructV("", [i \in 1..Len(headers) |-> Field(SafeHeader(headers[i]), headers[i], Str(row[i]))])

TableToStructs(data) ==
    IF Len(data) = 0 THEN [status |-> "err", records |-> <<>>]
    ELSE LET headers == data[1]
             rows    == Tail(data)
         IN  IF StructOfPanics([i \in 1..Len(headers) |-> SafeHeader(headers[i])])
             THEN [status |-> "panic", records |-> <<>>]
             ELSE IF \E r \in 1..Len(rows) : Len(rows[r]) # Len(headers)
             THEN [status |-> "err", records |-> <<>>]
             ELSE [status |-> "ok",
                   records |-> [r \in 1..Len(rows) |-> RowStruct(headers, rows[r])]]

-----------------------------------------------------------------------------
(* The bounded inputs of the calls.                                        *)

MaxFields == 2

MaxElems == 2

MaxHeaders == 2

MaxKeys == 3

MaxSliceLen == 101

LongLen == 11

MaxCols == 2

MaxRows == 2

Strings(n) == SliceV([i \in 1..n |-> Str("s" \o ToString(i))], Str(""))

Owned == StructV("Owner", <<Field("ID", "id", IntV(7))>>)

\* the fields records are built from, in declared order
FieldPool ==
    << Field("Name", "name", Str("Ann")),
       Field("Name", "", Str("Ann")),
       Field("Tags", "tags", SliceV(<<Str("x"), Str("y")>>, Str(""))),
       Field("Tags", "", SliceV(<<Str("x"), Str("y")>>, Str(""))),
       Field("Owner", "owner", NilPtr("struct")),
       Field("Owner", "", NilPtr("struct")),
       Field("Items", "items", Strings(LongLen)),
       Field("Arr", "arr", PtrTo(ArrayV(<<IntV(1), IntV(2)>>, IntV(0)))),
       Field("Owner", "owner,omitempty", PtrTo(Owned)),
       Field("Owner", "owner", NilPtr("map")),
       Field("Attrs", "attrs", MapV(<<Entry("k2", Str("v2")), Entry("k1", Str("v1"))>>)),
       Field("Meta", ",inline", StructV("Meta", <<Field("Kind", "kind", Str("user"))>>)),
       Field("Deep", "deep",
             MapV(<<Entry("z", Iface(ArrayV(<<IntV(1)>>, IntV(0)))), Entry("a", Iface(Str("b")))>>)) >>

RECURSIVE Pick(_, _, _)
Pick(pool, S, i) ==
    IF i > Len(pool) THEN <<>>
    ELSE (IF i \in S THEN <<pool[i]>> ELSE <<>>) \o Pick(pool, S, i + 1)

\* the records of at most MaxFields fields of the pool whose positions are in
\* idx, in pool order, no declared name twice
RecordsOf(pool, idx) ==
    { StructV("Rec", Pick(pool, S, 1)) :
        S \in { T \in SUBSET idx :
                  /\ Cardinality(T) \in 1..MaxFields
                  /\ \A i, j \in T : i # j => pool[i].Name # pool[j].Name } }

RecordsFrom(idx) == RecordsOf(FieldPool, idx)

Records == RecordsFrom(1..Len(FieldPool))

PipeRecords == RecordsFrom(1..8)

ElemRecords == RecordsFrom(1..6)

\* the elements of the sequences ([]interface{}): present and absent ones
SeqElems == {NilIface} \cup {Iface(r) : r \in ElemRecords}

ElemLists(n) == [1..n -> SeqElems]

Prefixes == {"", "p"}

LongSlices == { Strings(n) : n \in 0..MaxSliceLen }

CallerMaps == { EmptyMap, [k \in {"pre"} |-> "old"] }

ListsOver(pool, n) == UNION { [1..k -> pool] : k \in 0..n }

HeaderChoices == ListsOver({"tags", "items", "zz"}, MaxHeaders)

Configs ==
    { Config(g, x, h) : g \in BOOLEAN, x \in BOOLEAN,
                        h \in {NilHeaders} \cup {WithHeaders(l) : l \in HeaderChoices} }

MapOrders == { [kind |-> "ascending"], [kind |-> "descending"] }

KeyPool == {"h", "h.1", "h.01", "h.2", "h.10", "h.1x", "h.a.x", "h.a-b", "g"}

FlatMaps ==
    { [k \in K |-> "v-" \o k] : K \in { T \in SUBSET KeyPool : Cardinality(T) <= MaxKeys } }

AsmHeaders == ListsOver({"h", "g", "h.1"}, MaxHeaders)

\* every order in which the keys of fm can be enumerated
Enumerations(fm) ==
    LET n == Cardinality(DOMAIN fm)
    IN  { [kind |-> "explicit", order |-> o] :
            o \in { f \in [1..n -> DOMAIN fm] : \A i, j \in 1..n : i # j => f[i] # f[j] } }

Cell(r, c) == "r" \o ToString(r) \o "c" \o ToString(c)

HeaderRows == ListsOver({"a", "b", "", "a.b"}, MaxCols)

Tables ==
    {<<>>} \cup
    UNION { { <<h>> \o [r \in 1..n |-> [c \in 1..lens[r] |-> Cell(r, c)]] :
                h \in HeaderRows, lens \in [1..n -> 0..MaxCols] } : n \in 0..MaxRows }

Stamp == TimeV("2024-01-02 03:04:05 +0000 UTC")

NoStrings == SliceV(<<>>, Str(""))

OneAttr == MapV(<<Entry("k1", Str("v1"))>>)

\* the fields of special shape: timestamps, suppressed fields, empty
\* containers, inlined and nested structural fields, maps of maps
ShapePool ==
    << Field("Created", "created", Stamp),
       Field("Created", "", Stamp),
       Field("Created", "-", Stamp),
       Field("Secret", "-", Str("pw")),
       Field("Tags", "tags", NoStrings),
       Field("Attrs", "attrs", MapV(<<>>)),
       Field("Attrs", "attrs", MapV(<<Entry("a", Iface(NoStrings)), Entry("b", Iface(MapV(<<>>)))>>)),
       Field("Tags", "tags", PtrTo(NoStrings)),
       Field("Attrs", "attrs", PtrTo(MapV(<<>>))),
       Field("Meta", "meta", Owned),
       Field("Meta", ",inline", Owned),
       Field("Attrs", "attrs", OneAttr),
       Field("Attrs", ",inline", OneAttr),
       Field("Owner", "owner", PtrTo(Owned)),
       Field("Owner", ",inline", PtrTo(Owned)),
       Field("Attrs", "attrs", PtrTo(OneAttr)),
       Field("Attrs", ",inline", PtrTo(OneAttr)),
       Field("Any", "any", Iface(Owned)),
       Field("Any", ",inline", Iface(Owned)),
       Field("Any", "any", Iface(OneAttr)),
       Field("Any", ",inline", Iface(OneAttr)),
       Field("Mixed", "mixed",
             MapV(<<Entry("1", MapV(<<Entry("a", Str("x"))>>)),
                    Entry("1", MapV(<<Entry("b", Str("y"))>>))>>)),
       Field("Nest", "nest",
             MapV(<<Entry("b", MapV(<<Entry("y", Str("2")), Entry("x", Str("1"))>>)),
                    Entry("a", MapV(<<Entry("z", Str("3"))>>))>>)) >>

\* a record of one field
OneField(f) == StructV("Rec", <<f>>)

\* every field of special shape as the one field of a record, and that
\* record as the field outer of another
ShapeRecords ==
    { OneField(ShapePool[i]) : i \in 1..Len(ShapePool) }
    \cup { OneField(Field("Outer", "outer", OneField(ShapePool[i]))) : i \in 1..Len(ShapePool) }

\* absent references and scalar leaves given to GenerateFieldNames directly
GenValues ==
    { NilPtr("struct"), NilPtr("string"), NilIface, Str("x"), IntV(7), BoolV(TRUE) }

\* what DerefPointers is given
DerefInputs ==
    { NilPtr("string"), NilPtr("int"), NilPtr("bool"), NilPtr("struct"), NilIface,
      PtrTo(NilPtr("string")), Iface(NilPtr("int")),
      Str("x"), IntV(7), PtrTo(Str("x")), PtrTo(PtrTo(IntV(7))), Iface(PtrTo(Owned)),
      PtrTo(Iface(BoolV(TRUE))) }

Inner(id, label) ==
    StructV("Inner", <<Field("ID", "id", IntV(id)), Field("Label", "label", Str(label))>>)

\* the fields the records given to ToMap are built from: zero and non-zero
\* values, a nested record, a list of records, an unexported field
ZeroPool ==
    << Field("Name", "name", Str("")),
       Field("Name", "name", Str("Ann")),
       Field("Count", "", IntV(0)),
       Field("Owner", "owner", NilPtr("struct")),
       Field("Inner", "inner", Inner(0, "x")),
       Field("Inner", "inner", Inner(0, "")),
       Field("List", "list", SliceV(<<Inner(0, ""), Inner(7, "")>>, Inner(0, ""))),
       Field("secret", "", Str("s")),
       Field("Ref", "ref", PtrTo(Inner(0, "x"))),
       Field("Any", "any", Iface(Str(""))) >>

ToMapRecords == RecordsOf(ZeroPool, 1..Len(ZeroPool))

ToMapMaps ==
    { MapV(<<>>),
      MapV(<<Entry("a", Str("")), Entry("b", Str("x"))>>),
      MapV(<<Entry("b", Iface(IntV(7))), Entry("a", Iface(Str("x")))>>) }

\* what ToMap accepts, directly or behind pointers, and what it rejects
ToMapInputs ==
    ToMapRecords \cup ToMapMaps
    \cup { PtrTo(v) : v \in ToMapRecords \cup ToMapMaps }
    \cup { PtrTo(PtrTo(v)) : v \in ToMapMaps }
    \cup { Invalid, Str("x"), IntV(0), BoolV(TRUE), NilPtr("struct"), Strings(1),
           PtrTo(Str("x")) }

-----------------------------------------------------------------------------
(* The calls.  Every call is independent of the calls before it: op names  *)
(* the last call, arg its arguments and ret what it returned or left       *)
(* behind its pointer arguments.                                           *)

Init == op = "idle" /\ arg = <<>> /\ ret = <<>>

GenerateCall(prefix, val, x) ==
    /\ arg' = [prefix |-> prefix, val |-> val, ExcludeNil |-> x]
    /\ ret' = GenerateFieldNames(prefix, val, [ExcludeNil |-> x])

\* GenerateFieldNames on a record or on a sequence of at most MaxElems elements
CallGenerateFieldNames ==
    /\ op = "idle"
    /\ \E prefix \in Prefixes, x \in BOOLEAN :
         \/ \E val \in Records \cup ShapeRecords \cup GenValues : GenerateCall(prefix, val, x)
         \/ \E n \in 0..MaxElems : \E elems \in ElemLists(n) :
              GenerateCall(prefix, SliceV(elems, NilIface), x)
    /\ op' = "GenerateFieldNames"

CallFlattenNestedStructs ==
    /\ op = "idle"
    /\ \E item \in Records \cup ShapeRecords \cup LongSlices, prefix \in Prefixes, m \in CallerMaps :
         /\ arg' = [item |-> item, prefix |-> prefix, fieldMap |-> m]
         /\ ret' = FlattenNestedStructs(item, prefix, m)
    /\ op' = "FlattenNestedStructs"

CallFlattenStructFields ==
    /\ op = "idle"
    /\ \E item \in PipeRecords, cfg \in Configs, enum \in MapOrders :
         /\ arg' = [item |-> item, cfg |-> cfg, enum |-> enum]
         /\ ret' = FlattenStructFields(item, cfg, enum)
    /\ op' = "FlattenStructFields"

CallMapToSlice ==
    /\ op = "idle"
    /\ \E fm \in FlatMaps, headers \in AsmHeaders :
         \E enum \in Enumerations(fm) :
           /\ arg' = [fieldMap |-> fm, headers |-> headers, enum |-> enum]
           /\ ret' = mapToSliceAndUpdateFields(fm, headers, enum)
    /\ op' = "mapToSliceAndUpdateFields"

CallTableToStructs ==
    /\ op = "idle"
    /\ \E data \in Tables :
         /\ arg' = [data |-> data]
         /\ ret' = TableToStructs(data)
    /\ op' = "TableToStructs"

CallDerefPointers ==
    /\ op = "idle"
    /\ \E val \in DerefInputs :
         /\ arg' = [val |-> val]
         /\ ret' = [status |-> "ok", val |-> DerefPointers(val)]
    /\ op' = "DerefPointers"

CallToMap ==
    /\ op = "idle"
    /\ \E item \in ToMapInputs, includeZeroValues \in BOOLEAN :
         /\ arg' = [item |-> item, includeZeroValues |-> includeZeroValues]
         /\ ret' = ToMap(item, includeZeroValues)
    /\ op' = "ToMap"

\* the caller flattens one of the records TableToStructs returned, with the
\* table's header row as Headers
FlattenReturnedRecord ==
    /\ op = "TableToStructs"
    /\ ret.status = "ok"
    /\ \E i \in 1..Len(ret.records), enum \in MapOrders :
         /\ arg' = [data |-> arg.data, row |-> i, enum |-> enum]
         /\ ret' = FlattenStructFields(ret.records[i],
                                       Config(FALSE, FALSE, WithHeaders(arg.data[1])), enum)
    /\ op' = "RoundTrip"

Return ==
    /\ op # "idle"
    /\ op' = "idle" /\ arg' = <<>> /\ ret' = <<>>

Next ==
    \/ CallGenerateFieldNames
    \/ CallFlattenNestedStructs
    \/ CallFlattenStructFields
    \/ CallMapToSlice
    \/ CallTableToStructs
    \/ CallToMap
    \/ CallDerefPointers
    \/ FlattenReturnedRecord
    \/ Return

Spec == Init /\ [][Next]_vars

\* the calls that flatten sequences: the flattener on its own and the pipeline
NextFlatten ==
    \/ CallFlattenNestedStructs
    \/ CallFlattenStructFields
    \/ Return

SpecFlatten == Init /\ [][NextFlatten]_vars

\* the calls of the assembler alone
NextAssemble ==
    \/ CallMapToSlice
    \/ Return

SpecAssemble == Init /\ [][NextAssemble]_vars

(***************************************************************************)
(* The contracts of the specification, stated over the calls above.        *)
(***************************************************************************)

\* the set of the elements of a sequence
C_Range(seq) == { seq[i] : i \in 1..Len(seq) }

\* no element of the sequence occurs twice
C_NoRepeat(seq) == \A i, j \in 1..Len(seq) : i # j => seq[i] # seq[j]

\* the keys FlattenNestedStructs writes for the record into an empty map
C1_Flat == FlattenNestedStructs(arg.item, "", EmptyMap).m

C1_Matched ==
    { key \in DOMAIN C1_Flat : \E h \in C_Range(arg.cfg.Headers.list) : MatchesHeader(key, h) }

C1_Unmatched ==
    { h \in C_Range(arg.cfg.Headers.list) : \A key \in DOMAIN C1_Flat : ~MatchesHeader(key, h) }

\* C1 Header completeness: with Generate off and a header list H,
\* FlattenStructFields returns one row for every flattened path that equals
\* or is under a header, exactly one row [header, ""] for every header that
\* matches no path, and no other row.
C1_HeaderCompleteness ==
    (/\ op = "FlattenStructFields"
     /\ ~arg.cfg.Generate
     /\ ~arg.cfg.Headers.nil
     /\ ret.status = "ok")
    => /\ C_NoRepeat(ret.rows)
       /\ C_Range(ret.rows) = { <<key, C1_Flat[key]>> : key \in C1_Matched }
                              \cup { <<h, "">> : h \in C1_Unmatched }

\* C2 Assembly determinism: mapToSliceAndUpdateFields returns the same rows
\* in the same order whatever order the keys of the map are enumerated in.
C2_AssemblyDeterministic ==
    op = "mapToSliceAndUpdateFields"
    => \A other \in Enumerations(arg.fieldMap) :
         mapToSliceAndUpdateFields(arg.fieldMap, arg.headers, other).rows = ret.rows

\* the present elements of the sequence passed to GenerateFieldNames
C3_Present == SelectSeq(arg.val.elems, LAMBDA e : ~IsNilRef(e))

\* the paths one element generates on its own
C3_Paths(e) == GenerateFieldNames(arg.prefix, e, [ExcludeNil |-> arg.ExcludeNil])

RECURSIVE C3_AppendNew(_, _, _)
C3_AppendNew(list, cand, i) ==
    IF i > Len(cand) THEN list
    ELSE C3_AppendNew(IF cand[i] \in C_Range(list) THEN list ELSE list \o <<cand[i]>>,
                      cand, i + 1)

\* the first present element's paths, then the new paths of the elements i..
RECURSIVE C3_UnionFrom(_, _)
C3_UnionFrom(list, i) ==
    IF i > Len(C3_Present) THEN list
    ELSE C3_UnionFrom(C3_AppendNew(list, C3_Paths(C3_Present[i]).fields, 1), i + 1)

\* C3 Merge union: on a sequence with present elements GenerateFieldNames
\* returns the first present element's paths in their order, then every
\* path of a later element that is not yet listed, and no path twice.
C3_MergeUnion ==
    (/\ op = "GenerateFieldNames"
     /\ arg.val.kind = "slice"
     /\ Len(C3_Present) > 0
     /\ \A i \in 1..Len(C3_Present) : C3_Paths(C3_Present[i]).status = "ok")
    => /\ ret.status = "ok"
       /\ ret.fields = C3_UnionFrom(C3_Paths(C3_Present[1]).fields, 2)
       /\ C_NoRepeat(ret.fields)

\* C4 Round trip: flattening the i-th record TableToStructs returned, with
\* the header row H as Headers, returns exactly the rows [H[k], d_i[k]] in
\* header order.
C4_RoundTrip ==
    op = "RoundTrip"
    => /\ ret.status = "ok"
       /\ ret.rows = [k \in 1..Len(arg.data[1]) |->
                        <<arg.data[1][k], arg.data[arg.row + 1][k]>>]

\* the record of Scenario A: a scalar field Name and a field Tags holding two
\* scalars, whatever their tags
C5_IsScenarioA(val) ==
    /\ val.kind = "struct"
    /\ Len(val.fields) = 2
    /\ val.fields[1].Name = "Name" /\ val.fields[1].val.kind = "string"
    /\ val.fields[2].Name = "Tags" /\ val.fields[2].val.kind = "slice"
    /\ Len(val.fields[2].val.elems) = 2

\* C5 Scenario A: GenerateFieldNames with the empty prefix returns the paths
\* name, tags.00, tags.01 for the record {Name, Tags: [x, y]}.
C5_ScenarioA ==
    (/\ op = "GenerateFieldNames"
     /\ arg.prefix = ""
     /\ C5_IsScenarioA(arg.val))
    => /\ ret.status = "ok"
       /\ ret.fields = <<"name", "tags.00", "tags.01">>

\* the record of Scenario B: its one field, Owner, is an absent reference
C6_IsScenarioB(val) ==
    /\ val.kind = "struct"
    /\ Len(val.fields) = 1
    /\ val.fields[1].Name = "Owner"
    /\ IsNilRef(val.fields[1].val)

\* C6 Scenario B: FlattenNestedStructs writes owner = "<nil>" for the absent
\* Owner; GenerateFieldNames lists owner without ExcludeNil and lists no
\* path equal to or under owner with ExcludeNil.
C6_ScenarioB ==
    /\ (op = "FlattenNestedStructs" /\ C6_IsScenarioB(arg.item))
       => /\ ret.status = "ok"
          /\ joinPrefixKey(arg.prefix, "owner") \in DOMAIN ret.m
          /\ ret.m[joinPrefixKey(arg.prefix, "owner")] = "<nil>"
    /\ (op = "GenerateFieldNames" /\ C6_IsScenarioB(arg.val))
       => /\ ret.status = "ok"
          /\ IF arg.ExcludeNil
             THEN \A path \in C_Range(ret.fields) :
                    ~MatchesHeader(path, joinPrefixKey(arg.prefix, "owner"))
             ELSE joinPrefixKey(arg.prefix, "owner") \in C_Range(ret.fields)

RECURSIVE C7_Digits(_)
C7_Digits(k) == IF k < 10 THEN 1 ELSE 1 + C7_Digits(k \div 10)

RECURSIVE C7_Pad(_, _)
C7_Pad(s, width) == IF Len(s) >= width THEN s ELSE C7_Pad("0" \o s, width)

\* the index segment of element j of a sequence of n elements: j in decimal,
\* zero-padded to max(2, number of digits of n-1)
C7_Segment(n, j) ==
    C7_Pad(ToString(j), IF C7_Digits(n - 1) < 2 THEN 2 ELSE C7_Digits(n - 1))

\* the position of the row of a key in the rows, 0 when there is none
C7_RowOf(rows, key) ==
    IF \E i \in 1..Len(rows) : rows[i][1] = key
    THEN CHOOSE i \in 1..Len(rows) : rows[i][1] = key
    ELSE 0

\* the length of the sequence under the field Items of a record, 0 without
C7_ItemsLen(val) ==
    IF \E i \in 1..Len(val.fields) :
         val.fields[i].Name = "Items" /\ val.fields[i].val.kind = "slice"
    THEN Len(val.fields[CHOOSE i \in 1..Len(val.fields) :
                          val.fields[i].Name = "Items"].val.elems)
    ELSE 0

\* the sequence is flattened under the segments of C7_Segment and nothing else
C7_KeyedBySegment(n) ==
    /\ ret.status = "ok"
    /\ DOMAIN ret.m = DOMAIN arg.fieldMap
                      \cup { joinPrefixKey(arg.prefix, C7_Segment(n, j)) : j \in 0..(n - 1) }
    /\ \A j \in 0..(n - 1) :
         ret.m[joinPrefixKey(arg.prefix, C7_Segment(n, j))] = arg.item.elems[j + 1].v

\* the segments have one width and their text order is the numeric order
C7_SegmentsOrdered(n) ==
    \A i, j \in 0..(n - 1) :
      i < j => /\ StrLess(C7_Segment(n, i), C7_Segment(n, j))
               /\ Len(C7_Segment(n, i)) = Len(C7_Segment(n, j))

\* the rows of the elements of Items come in the order of the elements
C7_RowsInOrder(n) ==
    \A i, j \in 0..(n - 1) :
      i < j => /\ C7_RowOf(ret.rows, "items." \o C7_Segment(n, i)) > 0
               /\ C7_RowOf(ret.rows, "items." \o C7_Segment(n, i))
                    < C7_RowOf(ret.rows, "items." \o C7_Segment(n, j))

\* C7 Sequence index segments: flattening a sequence of n elements keys
\* element j by j zero-padded to width max(2, digits of n-1); the segments of
\* one sequence have one width and sort as their indices; the assembled rows
\* of a sequence under items are in index order (items.02 before items.10).
C7_IndexSegments ==
    /\ (op = "FlattenNestedStructs" /\ arg.item.kind = "slice")
       => /\ C7_KeyedBySegment(Len(arg.item.elems))
          /\ C7_SegmentsOrdered(Len(arg.item.elems))
    /\ (/\ op = "FlattenStructFields"
        /\ ret.status = "ok"
        /\ arg.cfg.Generate \/ "items" \in C_Range(arg.cfg.Headers.list))
       => C7_RowsInOrder(C7_ItemsLen(arg.item))

\* an assembled table in which the rows items.02 and items.10 both occur
C7_ItemsAssembled ==
    /\ op = "FlattenStructFields"
    /\ ret.status = "ok"
    /\ C7_RowOf(ret.rows, "items.02") > 0
    /\ C7_RowOf(ret.rows, "items.02") < C7_RowOf(ret.rows, "items.10")

\* C8 No partial output on error: when FlattenNestedStructs returns an error
\* the caller's map is as it was before the call, and FlattenStructFields
\* returns no rows with an error.
C8_NoPartialOutput ==
    /\ (op = "FlattenNestedStructs" /\ ret.status = "err") => ret.m = arg.fieldMap
    /\ (op = "FlattenStructFields" /\ ret.status = "err") => ret.rows = <<>>

\* the table has no row, or a data row whose length is not the header count
C9_IllShaped(data) ==
    \/ Len(data) = 0
    \/ \E r \in 2..Len(data) : Len(data[r]) # Len(data[1])

\* C9 TableToStructs returns an error exactly for a table with no row or a
\* data row of another length than the header row, and then no record;
\* otherwise one record per data row, in row order, field i holding cell i.
C9_TableErrors ==
    op = "TableToStructs"
    => IF C9_IllShaped(arg.data)
       THEN ret.status = "err" /\ Len(ret.records) = 0
       ELSE /\ ret.status = "ok"
            /\ Len(ret.records) = Len(arg.data) - 1
            /\ \A r \in 1..Len(ret.records) :
                 /\ Len(ret.records[r].fields) = Len(arg.data[1])
                 /\ \A i \in 1..Len(arg.data[1]) :
                      ret.records[r].fields[i].val = Str(arg.data[r + 1][i])

\* the keys of the absent reference fields of a record
C10_AbsentKeys(val) ==
    { getMapKey(val.fields[i]) :
        i \in { k \in 1..Len(val.fields) : IsNilRef(val.fields[k].val) } }

\* C10 ExcludeNil in the pipeline: FlattenStructFields with Generate and
\* ExcludeNil returns no row and no header for an absent optional field.
C10_ExcludeNilPipeline ==
    (/\ op = "FlattenStructFields"
     /\ arg.cfg.Generate
     /\ arg.cfg.ExcludeNil
     /\ ret.status = "ok")
    => \A owner \in C10_AbsentKeys(arg.item) :
         /\ \A i \in 1..Len(ret.rows) : ~MatchesHeader(ret.rows[i][1], owner)
         /\ ret.headers.nil \/ \A h \in C_Range(ret.headers.list) : ~MatchesHeader(h, owner)

\* the keys of the rows, in row order
C11_Keys == [i \in 1..Len(ret.rows) |-> ret.rows[i][1]]

\* the keys of the map equal to or under a header
C11_Group(header) == { key \in DOMAIN arg.fieldMap : MatchesHeader(key, header) }

\* the keys under no header
C11_Unmatched ==
    { key \in DOMAIN arg.fieldMap : \A h \in C_Range(arg.headers) : ~MatchesHeader(key, h) }

\* the number of rows before the group of the i-th header
RECURSIVE C11_Offset(_)
C11_Offset(i) ==
    IF i <= 1 THEN 0 ELSE C11_Offset(i - 1) + Cardinality(C11_Group(arg.headers[i - 1]))

\* the order inside a group: by the first segment, numerically when both
\* parse, else by its text; then by the text of the rest
C11_BySegment(partsA, partsB, nA, nB) ==
    IF nA.ok /\ nB.ok /\ nA.n # nB.n THEN nA.n < nB.n
    ELSE IF ~(nA.ok /\ nB.ok) /\ partsA[1] # partsB[1] THEN StrLess(partsA[1], partsB[1])
    ELSE IF Len(partsA) > 1 /\ Len(partsB) > 1 THEN StrLess(partsA[2], partsB[2])
    ELSE Len(partsA) < Len(partsB)

C11_ByParts(partsA, partsB) ==
    C11_BySegment(partsA, partsB, Atoi(partsA[1]), Atoi(partsB[1]))

C11_Before(header, a, b) ==
    IF a = header \/ b = header THEN a = header /\ b # header
    ELSE C11_ByParts(SplitN2(TrimPrefix(a, header \o "."), "."),
                     SplitN2(TrimPrefix(b, header \o "."), "."))

\* the rows from..from+n-1 are the group of the header, in the group order
C11_GroupAt(header, from, n) ==
    /\ { C11_Keys[i] : i \in (from + 1)..(from + n) } = C11_Group(header)
    /\ \A i, j \in (from + 1)..(from + n) :
         i < j => ~C11_Before(header, C11_Keys[j], C11_Keys[i])

\* C11 Assembly order: the rows are one group per header in header order,
\* then the keys under no header in ascending order; in a group the header
\* itself is first, the others go by their first segment after the header
\* (numerically when both parse, else by text) and then by the rest.
C11_AssemblyOrder ==
    op = "mapToSliceAndUpdateFields"
    => /\ Len(ret.rows) = C11_Offset(Len(arg.headers) + 1) + Cardinality(C11_Unmatched)
       /\ \A i \in 1..Len(ret.rows) : ret.rows[i][2] = arg.fieldMap[ret.rows[i][1]]
       /\ \A h \in 1..Len(arg.headers) :
            C11_GroupAt(arg.headers[h], C11_Offset(h), Cardinality(C11_Group(arg.headers[h])))
       /\ SubSeq(C11_Keys, C11_Offset(Len(arg.headers) + 1) + 1, Len(ret.rows))
            = SortedKeys(C11_Unmatched)

\* a value of the returned map that is the zero value of its type
C12_ZeroValue(v) == v.kind \notin {"mapping", "list"} /\ IsZero(v)

\* no entry of the map is zero-valued, nor one of a map nested in it
RECURSIVE C12_ZeroFree(_)
C12_ZeroFree(m) ==
    \A key \in DOMAIN m :
      /\ ~C12_ZeroValue(m[key])
      /\ m[key].kind = "mapping" => C12_ZeroFree(m[key].m)
      /\ m[key].kind = "list" =>
           \A i \in 1..Len(m[key].elems) :
             m[key].elems[i].kind = "mapping" => C12_ZeroFree(m[key].elems[i].m)

\* what the references of the input lead to
C12_Target == FollowPointers(arg.item)

\* C12 ToMap: an input that is no record and no mapping gives an error and
\* no map; with includeZeroValues every exported field of the record has an
\* entry; without it the returned map holds no zero-valued entry, at any
\* level of the records converted.
C12_ToMapZeroValues ==
    op = "ToMap"
    => IF C12_Target.kind \notin {"struct", "map"}
       THEN ret.status = "err" /\ DOMAIN ret.out = {}
       ELSE /\ ret.status = "ok"
            /\ IF arg.includeZeroValues
               THEN C12_Target.kind = "struct" =>
                      \A i \in 1..Len(C12_Target.fields) :
                        IsExported(C12_Target.fields[i]) =>
                          ToMapKey(C12_Target.fields[i]) \in DOMAIN ret.out
               ELSE C12_ZeroFree(ret.out)

\* the same value with every mapping inside it enumerating its keys in the
\* opposite order
RECURSIVE C13_Reenumerated(_)
C13_Reenumerated(v) ==
    CASE v.kind = "map" ->
           MapV(Reverse([i \in 1..Len(v.entries) |->
                           Entry(v.entries[i].k, C13_Reenumerated(v.entries[i].v))]))
      [] v.kind = "struct" ->
           [v EXCEPT !.fields = [i \in 1..Len(v.fields) |->
                                   [v.fields[i] EXCEPT !.val = C13_Reenumerated(v.fields[i].val)]]]
      [] v.kind \in {"slice", "array"} ->
           [v EXCEPT !.elems = [i \in 1..Len(v.elems) |-> C13_Reenumerated(v.elems[i])]]
      [] v.kind \in {"ptr", "interface"} /\ ~v.nil ->
           [v EXCEPT !.elem = C13_Reenumerated(v.elem)]
      [] OTHER -> v

\* the paths of one field after those of the fields declared before it
C13_DeclaredOrder ==
    (arg.val.kind = "struct" /\ Len(arg.val.fields) = 2 /\ ret.status = "ok")
    => ret.fields
         = GenerateFieldNames(arg.prefix, StructV(arg.val.type, <<arg.val.fields[1]>>),
                              [ExcludeNil |-> arg.ExcludeNil]).fields
           \o GenerateFieldNames(arg.prefix, StructV(arg.val.type, <<arg.val.fields[2]>>),
                                 [ExcludeNil |-> arg.ExcludeNil]).fields

\* the paths of a record of one mapping field ascend with the keys
C13_KeysAscend ==
    (arg.val.kind = "struct" /\ Len(arg.val.fields) = 1
       /\ arg.val.fields[1].val.kind = "map" /\ ret.status = "ok")
    => \A i, j \in 1..Len(ret.fields) : i < j => ~StrLess(ret.fields[j], ret.fields[i])

\* C13 GenerateFieldNames returns the same ordered list whatever order the
\* mappings inside the value enumerate their keys in; the paths of a mapping
\* ascend with the string form of the keys and those of a record follow the
\* declared order of the fields.
C13_GeneratorDeterministic ==
    op = "GenerateFieldNames"
    => /\ GenerateFieldNames(arg.prefix, C13_Reenumerated(arg.val),
                             [ExcludeNil |-> arg.ExcludeNil]) = ret
       /\ C13_DeclaredOrder
       /\ C13_KeysAscend

\* the kind of the target when the references of v end at an absent one
RECURSIVE C14_AbsentKind(_)
C14_AbsentKind(v) ==
    IF v.kind \notin {"ptr", "interface"} THEN "present"
    ELSE IF v.nil THEN (IF v.kind = "ptr" THEN v.ekind ELSE "interface")
    ELSE C14_AbsentKind(v.elem)

\* the zero value of a scalar kind
C14_Zero(kind) ==
    CASE kind = "string" -> Str("")
      [] kind = "int" -> IntV(0)
      [] kind = "bool" -> BoolV(FALSE)

\* C14 DerefPointers never returns an error and ends at a value that is no
\* pointer and no interface; when the references end at an absent one whose
\* target kind is scalar, the result is the zero value of that kind and not
\* the invalid value.
C14_DerefAbsentScalar ==
    op = "DerefPointers"
    => /\ ret.status = "ok"
       /\ ret.val.kind \notin {"ptr", "interface"}
       /\ C14_AbsentKind(arg.val) \in {"string", "int", "bool"}
            => ret.val = C14_Zero(C14_AbsentKind(arg.val))

\* C15 GenerateFieldNames on an absent reference, a nil pointer or a nil
\* interface, returns the empty list and no error, whatever the prefix.
C15_AbsentReference ==
    (op = "GenerateFieldNames" /\ IsNilRef(arg.val))
    => ret = GenOk(<<>>)

\* the kinds GenerateFieldNames has a case for, and the scalar leaves
C16_Supported ==
    {"struct", "map", "slice", "array", "ptr", "interface", "string", "int", "bool"}

\* C16 GenerateFieldNames on a top-level string, number or boolean with
\* prefix P returns [P] and no error; an error for an unsupported input is
\* returned only for a kind that is none of record, mapping, sequence,
\* reference or leaf.
C16_TopLevelLeaf ==
    op = "GenerateFieldNames"
    => /\ arg.val.kind \in {"string", "int", "bool"} => ret = GenOk(<<arg.prefix>>)
       /\ (ret.status = "err" /\ arg.val.kind \notin {"slice", "array", "struct"})
            => arg.val.kind \notin C16_Supported

\* a record whose leaves are all timestamp fields: each field is a
\* timestamp or a nested record, not inlined, of the same sort
RECURSIVE C17_TimeOnly(_)
C17_TimeOnly(v) ==
    /\ v.kind = "struct"
    /\ v.type # "time.Time"
    /\ \A i \in 1..Len(v.fields) :
         LET f == v.fields[i] IN
           /\ ~f.anon
           /\ \/ IsTimeType(f)
              \/ f.json \notin {"-", ",inline"} /\ C17_TimeOnly(f.val)

\* the paths of the timestamp fields of such a record reached under prefix,
\* from field i on: one path prefix.key per timestamp, none for a
\* suppressed one
RECURSIVE C17_Paths(_, _, _)
C17_Paths(prefix, v, i) ==
    IF i > Len(v.fields) THEN <<>>
    ELSE LET f == v.fields[i]
             key == joinPrefixKey(prefix, getMapKey(f))
             here == IF ~IsTimeType(f) THEN C17_Paths(key, f.val, 1)
                     ELSE IF f.json = "-" THEN <<>>
                     ELSE <<key>>
         IN  here \o C17_Paths(prefix, v, i + 1)

\* C17 a timestamp field with key k in a record reached under prefix P gives
\* exactly the one path P.k in GenerateFieldNames (k when P is empty) and
\* nothing below it, at every depth; FlattenNestedStructs stores the printed
\* time under that same key; a suppressed timestamp field gives no path.
C17_TimestampLeaves ==
    /\ (op = "GenerateFieldNames" /\ C17_TimeOnly(arg.val))
         => ret = GenOk(C17_Paths(arg.prefix, arg.val, 1))
    /\ (op = "FlattenNestedStructs" /\ C17_TimeOnly(arg.item))
         => /\ ret.status = "ok"
            /\ \A path \in C_Range(C17_Paths(arg.prefix, arg.item, 1)) :
                 path \in DOMAIN ret.m /\ ret.m[path] = Stamp.str

\* the paths a suppressed field of the record would have under prefix: its
\* own key, in each form getMapKey and the generator can give it, and every
\* path below those
RECURSIVE C18_Suppressed(_, _)
C18_Suppressed(prefix, v) ==
    IF v.kind # "struct" \/ v.type = "time.Time" THEN {}
    ELSE UNION { LET f == v.fields[i] IN
                   IF f.json = "-"
                   THEN { joinPrefixKey(prefix, getMapKey(f)), joinPrefixKey(prefix, "-"), "-" }
                   ELSE IF f.val.kind = "struct" /\ ~shouldInline(f)
                   THEN C18_Suppressed(joinPrefixKey(prefix, getMapKey(f)), f.val)
                   ELSE {} : i \in 1..Len(v.fields) }

\* the record has a suppressed field, at the top or in a nested record
RECURSIVE C18_HasSuppressed(_)
C18_HasSuppressed(v) ==
    /\ v.kind = "struct"
    /\ v.type # "time.Time"
    /\ \E i \in 1..Len(v.fields) :
         v.fields[i].json = "-" \/ C18_HasSuppressed(v.fields[i].val)

\* C18 a record field tagged `-` gives no path in GenerateFieldNames and no
\* entry in the map FlattenNestedStructs writes: the flattened keys of a
\* record hold no key of a suppressed field.
C18_SuppressedFields ==
    /\ (op = "GenerateFieldNames" /\ C18_HasSuppressed(arg.val) /\ ret.status = "ok")
         => C_Range(ret.fields) \cap C18_Suppressed(arg.prefix, arg.val) = {}
    /\ (op = "FlattenNestedStructs" /\ C18_HasSuppressed(arg.item) /\ ret.status = "ok")
         => \A key \in C18_Suppressed(arg.prefix, arg.item) :
              key \in DOMAIN ret.m => key \in DOMAIN arg.fieldMap /\ ret.m[key] = arg.fieldMap[key]

\* a sequence or a mapping of no elements
C19_Empty(v) ==
    \/ v.kind \in {"slice", "array"} /\ Len(v.elems) = 0
    \/ v.kind = "map" /\ Len(v.entries) = 0

\* the paths of the empty containers reached while flattening v under
\* prefix: as a field of a record, as a value of a mapping, behind present
\* references
RECURSIVE C19_EmptyPaths(_, _)
C19_EmptyPaths(prefix, v) ==
    CASE v.kind \in {"ptr", "interface"} ->
           IF v.nil THEN {} ELSE C19_EmptyPaths(prefix, v.elem)
      [] C19_Empty(v) -> {prefix}
      [] v.kind = "map" ->
           UNION { C19_EmptyPaths(joinPrefixKey(prefix, v.entries[i].k), v.entries[i].v) :
                     i \in 1..Len(v.entries) }
      [] v.kind = "struct" /\ v.type # "time.Time" ->
           UNION { LET f == v.fields[i] IN
                     IF ~IsExported(f) \/ f.val.kind = "interface" THEN {}
                     ELSE C19_EmptyPaths(IF shouldInline(f) /\ ~C19_Empty(DerefPointers(f.val))
                                         THEN prefix
                                         ELSE joinPrefixKey(prefix, getMapKey(f)), f.val) :
                     i \in 1..Len(v.fields) }
      [] OTHER -> {}

\* C19 every empty sequence and every empty mapping reached while flattening
\* has exactly one entry, at its own path and with value "": as a field of a
\* record, as a value of a mapping and behind a present reference.
C19_EmptyContainers ==
    (op = "FlattenNestedStructs" /\ arg.item.kind = "struct" /\ ret.status = "ok")
    => \A path \in C19_EmptyPaths(arg.prefix, arg.item) :
         path \in DOMAIN ret.m /\ ret.m[path] = ""

\* a record of one structural field: a record or a mapping with entries,
\* held directly, behind a present reference or in an interface
C20_Structural(v) ==
    /\ v.kind = "struct"
    /\ v.type # "time.Time"
    /\ Len(v.fields) = 1
    /\ IsExported(v.fields[1])
    /\ v.fields[1].json # "-"
    /\ LET target == DerefPointers(v.fields[1].val) IN
         \/ target.kind = "struct" /\ target.type # "time.Time"
         \/ target.kind = "map" /\ Len(target.entries) > 0

\* where the children of the field belong: the parent prefix with the
\* inline directive, prefix.key without it
C20_Base(prefix, f) ==
    IF shouldInline(f) THEN prefix ELSE joinPrefixKey(prefix, getMapKey(f))

\* C20 in GenerateFieldNames and in FlattenNestedStructs alike, a structural
\* field with the inline directive gives its children's keys directly under
\* the parent prefix P and the same field without the directive gives them
\* under P.key, whether the record or mapping is held directly, behind a
\* reference or in an interface.
C20_InlineVersusNested ==
    /\ (op = "GenerateFieldNames" /\ C20_Structural(arg.val))
         => ret = GenerateFieldNames(C20_Base(arg.prefix, arg.val.fields[1]),
                                     DerefPointers(arg.val.fields[1].val),
                                     [ExcludeNil |-> arg.ExcludeNil])
    /\ (op = "FlattenNestedStructs" /\ C20_Structural(arg.item))
         => ret = FlattenNestedStructs(DerefPointers(arg.item.fields[1].val),
                                       C20_Base(arg.prefix, arg.item.fields[1]),
                                       arg.fieldMap)

\* the first columns of the rows, in order
C21_FirstColumns(rows) == [i \in 1..Len(rows) |-> rows[i][1]]

\* the map FlattenStructFields flattens its record into
C21_Flattened == FlattenNestedStructs(arg.item, "", EmptyMap).m

\* C21 after a successful mapToSliceAndUpdateFields, and so after a
\* successful FlattenStructFields, the caller's header list is the sequence
\* of the first columns of the returned rows, of the same length and in the
\* same order, and the second column of a row is the map's value for its path.
C21_HeadersReplaced ==
    /\ op = "mapToSliceAndUpdateFields"
         => /\ ret.headers = C21_FirstColumns(ret.rows)
            /\ \A i \in 1..Len(ret.rows) : ret.rows[i][2] = arg.fieldMap[ret.rows[i][1]]
    /\ (op = "FlattenStructFields" /\ ret.status = "ok" /\ ~arg.cfg.Headers.nil)
         => /\ ret.headers = WithHeaders(C21_FirstColumns(ret.rows))
            /\ \A i \in 1..Len(ret.rows) :
                 ret.rows[i][2] = IF ret.rows[i][1] \in DOMAIN C21_Flattened
                                  THEN C21_Flattened[ret.rows[i][1]]
                                  ELSE ""

\* the rows that carry the key
C22_RowsOf(key) == { i \in 1..Len(ret.rows) : ret.rows[i][1] = key }

\* the headers, by position, that the key is equal to or under
C22_Matching(key) == { h \in 1..Len(arg.headers) : MatchesHeader(key, arg.headers[h]) }

\* no two headers of the list are equal or one a dotted prefix of the other
C22_Apart ==
    \A i, j \in 1..Len(arg.headers) :
      i # j => ~MatchesHeader(arg.headers[i], arg.headers[j])

\* C22 every key of the map given to mapToSliceAndUpdateFields is in at
\* least one returned row, and in exactly one when no two headers are equal
\* or dotted prefixes of one another; a key under several headers is
\* returned once for each of them, so the rows can outnumber the keys.
C22_KeyCoverage ==
    op = "mapToSliceAndUpdateFields"
    => /\ \A key \in DOMAIN arg.fieldMap :
            /\ Cardinality(C22_RowsOf(key)) >= 1
            /\ C22_Apart => Cardinality(C22_RowsOf(key)) = 1
            /\ C22_Matching(key) # {}
                 => Cardinality(C22_RowsOf(key)) = Cardinality(C22_Matching(key))
       /\ \A i \in 1..Len(ret.rows) : ret.rows[i][1] \in DOMAIN arg.fieldMap

\* an assembly under two overlapping headers that returns more rows than
\* the map has keys, one key matched and one left over
C22_MoreRowsThanKeys ==
    /\ op = "mapToSliceAndUpdateFields"
    /\ Len(arg.headers) = 2
    /\ ~C22_Apart
    /\ Len(ret.rows) > Cardinality(DOMAIN arg.fieldMap)
    /\ \E key \in DOMAIN arg.fieldMap : C22_Matching(key) = {}

\* C23 for every record and every combination of the options, no option at
\* all included (Generate off, no header list), FlattenStructFields returns
\* rows or an error: rows with status ok, no rows with an error, and never
\* an abort for the missing header list.
C23_NoAbort ==
    (op = "FlattenStructFields" /\ DerefPointers(arg.item).kind = "struct")
    => /\ ret.status \in {"ok", "err"}
       /\ ret.status = "err" => Len(ret.rows) = 0
====
